---- MODULE Spec2Model ----
(***************************************************************************)
(* Model of the Mullet Method demo: a Flask application that resolves      *)
(* every request path through database lookups (app.py) over the tables    *)
(* defined in models.py.                                                   *)
(*                                                                         *)
(* Strings that the code takes apart (URL paths, prefixes, page paths) are *)
(* sequences of one-character strings, so that strip, split, lower,        *)
(* replace and isalnum are computed as Python computes them.  A table is   *)
(* the sequence of its rows; a row's id is its position (an autoincrement  *)
(* integer primary key; no modelled operation deletes a row).             *)
(***************************************************************************)
EXTENDS Integers, Sequences, FiniteSets, TLC

VARIABLES sites, pages, blocks, navs, call, ret,
          CONTENT_BLOCK_TYPES, CONTENT_RENDERERS, THEME_CUSTOMIZERS

store == <<sites, pages, blocks, navs>>
registries == <<CONTENT_BLOCK_TYPES, CONTENT_RENDERERS, THEME_CUSTOMIZERS>>
vars == <<sites, pages, blocks, navs, call, ret, registries>>

----------------------------------------------------------------------------
(* Bounds of the model. *)

MaxSites == 2
MaxPages == 2
MaxBlocks == 4
MaxNavs == 3
MaxChain == 18

----------------------------------------------------------------------------
(* Python string operations on character sequences. *)

UpperChars == {"A", "B", "T"}
LowerChars ==
    {"a", "b", "e", "h", "i", "m", "n", "o", "r", "s", "t", "u", "v", "x"}
DigitChars == {"2"}

\* str.lower() on one character
LowerChar(c) ==
    CASE c = "A" -> "a"
      [] c = "B" -> "b"
      [] c = "T" -> "t"
      [] OTHER -> c

\* str.lower()
Lower(s) == [i \in DOMAIN s |-> LowerChar(s[i])]

\* str.replace(ch, '')
Remove(s, ch) == SelectSeq(s, LAMBDA c : c # ch)

\* str.isalnum(): non-empty and every character a letter or a digit
IsAlnum(s) ==
    /\ s # <<>>
    /\ \A i \in DOMAIN s : s[i] \in UpperChars \cup LowerChars \cup DigitChars

RECURSIVE LStrip(_)
LStrip(s) == IF s # <<>> /\ Head(s) = "/" THEN LStrip(Tail(s)) ELSE s

RECURSIVE RStrip(_)
RStrip(s) ==
    IF s # <<>> /\ s[Len(s)] = "/" THEN RStrip(SubSeq(s, 1, Len(s) - 1)) ELSE s

\* str.strip('/')
Strip(s) == RStrip(LStrip(s))

\* str.split('/'): always at least one part, empty parts kept
RECURSIVE Split(_)
Split(s) ==
    IF \A i \in DOMAIN s : s[i] # "/"
    THEN <<s>>
    ELSE LET i == CHOOSE k \in DOMAIN s :
                      s[k] = "/" /\ \A j \in 1..(k - 1) : s[j] # "/"
         IN  <<SubSeq(s, 1, i - 1)>> \o Split(SubSeq(s, i + 1, Len(s)))

\* str.startswith(prefix)
StartsWith(s, prefix) ==
    Len(s) >= Len(prefix) /\ SubSeq(s, 1, Len(prefix)) = prefix

\* the characters str.strip() removes
Whitespace == {" ", "\n", "\t"}

RECURSIVE LStripWs(_)
LStripWs(s) ==
    IF s # <<>> /\ Head(s) \in Whitespace THEN LStripWs(Tail(s)) ELSE s

RECURSIVE RStripWs(_)
RStripWs(s) ==
    IF s # <<>> /\ s[Len(s)] \in Whitespace
    THEN RStripWs(SubSeq(s, 1, Len(s) - 1))
    ELSE s

\* str.strip()
StripWs(s) == RStripWs(LStripWs(s))

\* str.split('\n'): always at least one part, empty parts kept
RECURSIVE SplitLines(_)
SplitLines(s) ==
    IF \A i \in DOMAIN s : s[i] # "\n"
    THEN <<s>>
    ELSE LET i == CHOOSE k \in DOMAIN s :
                      s[k] = "\n" /\ \A j \in 1..(k - 1) : s[j] # "\n"
         IN  <<SubSeq(s, 1, i - 1)>> \o SplitLines(SubSeq(s, i + 1, Len(s)))

\* ''.join(parts)
RECURSIVE Join(_)
Join(parts) == IF parts = <<>> THEN <<>> ELSE Head(parts) \o Join(Tail(parts))

----------------------------------------------------------------------------
(* String literals used as inputs. *)

S_test == <<"t", "e", "s", "t">>
S_test2 == <<"t", "e", "s", "t", "2">>
S_Test == <<"T", "e", "s", "t">>
S_tes == <<"t", "e", "s">>
S_home == <<"h", "o", "m", "e">>
S_about == <<"a", "b", "o", "u", "t">>
S_About == <<"A", "b", "o", "u", "t">>
S_a_b == <<"a", "/", "b">>
S_B_b == <<"B", "-", "b">>
S_b_b == <<"b", "-", "b">>
S_restaurant == <<"r", "e", "s", "t", "a", "u", "r", "a", "n", "t">>
S_menu == <<"m", "e", "n", "u">>
S_reservations ==
    <<"r", "e", "s", "e", "r", "v", "a", "t", "i", "o", "n", "s">>
S_http == <<"h", "t", "t", "p">>
S_http_x == <<"h", "t", "t", "p", ":", "/", "/", "x">>
SLASH == <<"/">>

----------------------------------------------------------------------------
(* models.py: column validators.  A validator either raises ValueError or  *)
(* returns the value that is stored.                                       *)

AllowedThemes == {"corporate", "blog", "portfolio", "default"}

\* Site.validate_path_prefix
validate_path_prefix(path_prefix) ==
    IF path_prefix = <<>> \/ ~IsAlnum(Remove(Remove(path_prefix, "-"), "_"))
    THEN [raised |-> "ValueError", value |-> <<>>]
    ELSE [raised |-> "none", value |-> Lower(path_prefix)]

\* Site.validate_template_theme
validate_template_theme(template_theme) ==
    IF template_theme \notin AllowedThemes
    THEN [raised |-> "ValueError", value |-> ""]
    ELSE [raised |-> "none", value |-> template_theme]

\* Page.validate_path
validate_path(path) ==
    IF path = <<>> \/ ~IsAlnum(Remove(Remove(Remove(path, "-"), "_"), "/"))
    THEN [raised |-> "ValueError", value |-> <<>>]
    ELSE [raised |-> "none", value |-> Lower(path)]

\* NavigationItem.validate_url
validate_url(url) ==
    IF url = <<>>
    THEN [raised |-> "ValueError", value |-> <<>>]
    ELSE IF ~(StartsWith(url, <<"/">>) \/ StartsWith(url, S_http))
    THEN [raised |-> "none", value |-> <<"/">> \o url]
    ELSE [raised |-> "none", value |-> url]

----------------------------------------------------------------------------
(* The rows. *)

SiteRow(prefix, theme, active) ==
    [path_prefix |-> prefix, template_theme |-> theme, is_active |-> active]

PageRow(site_id, path, active) ==
    [site_id |-> site_id, path |-> path, is_active |-> active]

BlockRow(page_id, order_index, active) ==
    [page_id |-> page_id, order_index |-> order_index, is_active |-> active]

\* parent_id 0 is NULL
NavRow(site_id, label, url, parent_id, order_index, active) ==
    [site_id |-> site_id, label |-> label, url |-> url,
     is_external |-> FALSE, parent_id |-> parent_id,
     order_index |-> order_index, is_active |-> active]

NoCall == [op |-> "none"]
NoRet == [raised |-> "none"]

----------------------------------------------------------------------------
(* Queries.  Query.first() without ORDER BY returns any matching row, and  *)
(* ORDER BY leaves the order of rows with equal keys to the database: both *)
(* are choices.  first() is modelled by the set of rows it may return (0   *)
(* is None); the order among ties by a permutation tb of the row ids (the  *)
(* order in which the database happens to scan them).                      *)

First(matches) == IF matches = {} THEN {0} ELSE matches

\* rows `ids` sorted by key, ties in scan order tb
RECURSIVE OrderBy(_, _, _)
OrderBy(ids, key, tb) ==
    IF ids = {}
    THEN <<>>
    ELSE LET m == CHOOSE i \in ids :
                      \A j \in ids \ {i} :
                          \/ key[i] < key[j]
                          \/ key[i] = key[j] /\ tb[i] < tb[j]
         IN  <<m>> \o OrderBy(ids \ {m}, key, tb)

\* mutant of resolve_site: the is_active filter is forgotten
resolve_site_any(site_prefix) ==
    First({i \in DOMAIN sites : sites[i].path_prefix = site_prefix})

\* mutant of resolve_site: only the sites present at start-up are seen
resolve_site_startup(site_prefix) ==
    First({i \in DOMAIN sites \cap {1} :
              sites[i].path_prefix = site_prefix /\ sites[i].is_active})

\* app.resolve_site
resolve_site(site_prefix) ==
    First({i \in DOMAIN sites :
              sites[i].path_prefix = site_prefix /\ sites[i].is_active})

\* mutant of resolve_page: the site filter is forgotten
resolve_page_any_site(site, page_path) ==
    First({i \in DOMAIN pages :
              pages[i].path = page_path /\ pages[i].is_active})

\* app.resolve_page
resolve_page(site, page_path) ==
    First({i \in DOMAIN pages :
              /\ pages[i].site_id = site
              /\ pages[i].path = page_path
              /\ pages[i].is_active})

\* mutant of get_content_blocks: the is_active filter is forgotten
get_content_blocks_all(page, tb) ==
    OrderBy({i \in DOMAIN blocks : blocks[i].page_id = page},
            [i \in DOMAIN blocks |-> blocks[i].order_index], tb)

\* app.get_content_blocks
get_content_blocks(page, tb) ==
    OrderBy({i \in DOMAIN blocks :
                blocks[i].page_id = page /\ blocks[i].is_active},
            [i \in DOMAIN blocks |-> blocks[i].order_index], tb)

\* NavigationItem.get_full_url, of the stored item i
get_full_url(i) ==
    IF navs[i].is_external \/ StartsWith(navs[i].url, S_http)
    THEN navs[i].url
    ELSE IF StartsWith(navs[i].url, <<"/">>)
    THEN navs[i].url
    ELSE <<"/">> \o sites[navs[i].site_id].path_prefix \o <<"/">>
             \o navs[i].url

\* Nested calls of get_nav_children the interpreter allows before it raises
\* RecursionError (stands for Python's recursion limit).
RecursionLimit == 20

\* mutant of get_nav_children: the is_active filter is forgotten
RECURSIVE get_nav_children_all(_, _, _)
get_nav_children_all(parent_id, tb, depth) ==
    IF depth > RecursionLimit
    THEN [raised |-> "RecursionError", value |-> <<>>]
    ELSE LET children ==
                 OrderBy({i \in DOMAIN navs : navs[i].parent_id = parent_id},
                         [i \in DOMAIN navs |-> navs[i].order_index], tb)
             sub == [k \in DOMAIN children |->
                        get_nav_children_all(children[k], tb, depth + 1)]
         IN  IF \E k \in DOMAIN children : sub[k].raised # "none"
             THEN [raised |-> "RecursionError", value |-> <<>>]
             ELSE [raised |-> "none",
                   value |-> [k \in DOMAIN children |->
                                 [id |-> children[k],
                                  label |-> navs[children[k]].label,
                                  url |-> navs[children[k]].url,
                                  children |-> sub[k].value]]]

\* app.get_nav_children; depth counts the nested calls
RECURSIVE get_nav_children(_, _, _)
get_nav_children(parent_id, tb, depth) ==
    IF depth > RecursionLimit
    THEN [raised |-> "RecursionError", value |-> <<>>]
    ELSE LET children ==
                 OrderBy({i \in DOMAIN navs :
                             navs[i].parent_id = parent_id /\ navs[i].is_active},
                         [i \in DOMAIN navs |-> navs[i].order_index], tb)
             sub == [k \in DOMAIN children |->
                        get_nav_children(children[k], tb, depth + 1)]
         IN  IF \E k \in DOMAIN children : sub[k].raised # "none"
             THEN [raised |-> "RecursionError", value |-> <<>>]
             ELSE [raised |-> "none",
                   value |-> [k \in DOMAIN children |->
                                 [id |-> children[k],
                                  label |-> navs[children[k]].label,
                                  url |-> navs[children[k]].url,
                                  children |-> sub[k].value]]]

\* mutant of build_navigation: the top-level query forgets parent_id=None
build_navigation_any_parent(site, tb) ==
    LET nav_items ==
            OrderBy({i \in DOMAIN navs :
                        navs[i].site_id = site /\ navs[i].is_active},
                    [i \in DOMAIN navs |-> navs[i].order_index], tb)
        sub == [k \in DOMAIN nav_items |-> get_nav_children(nav_items[k], tb, 1)]
    IN  IF \E k \in DOMAIN nav_items : sub[k].raised # "none"
        THEN [raised |-> "RecursionError", value |-> <<>>]
        ELSE [raised |-> "none",
              value |-> [k \in DOMAIN nav_items |->
                            [id |-> nav_items[k],
                             label |-> navs[nav_items[k]].label,
                             url |-> navs[nav_items[k]].url,
                             children |-> sub[k].value]]]

\* mutant of build_navigation: an item whose parent is inactive is listed
\* at the top level
build_navigation_orphans(site, tb) ==
    LET nav_items ==
            OrderBy({i \in DOMAIN navs :
                        /\ navs[i].site_id = site
                        /\ \/ navs[i].parent_id = 0
                           \/ /\ navs[i].parent_id \in DOMAIN navs
                              /\ ~navs[navs[i].parent_id].is_active
                        /\ navs[i].is_active},
                    [i \in DOMAIN navs |-> navs[i].order_index], tb)
        sub == [k \in DOMAIN nav_items |-> get_nav_children(nav_items[k], tb, 1)]
    IN  IF \E k \in DOMAIN nav_items : sub[k].raised # "none"
        THEN [raised |-> "RecursionError", value |-> <<>>]
        ELSE [raised |-> "none",
              value |-> [k \in DOMAIN nav_items |->
                            [id |-> nav_items[k],
                             label |-> navs[nav_items[k]].label,
                             url |-> navs[nav_items[k]].url,
                             children |-> sub[k].value]]]

\* app.build_navigation
build_navigation(site, tb) ==
    LET nav_items ==
            OrderBy({i \in DOMAIN navs :
                        /\ navs[i].site_id = site
                        /\ navs[i].parent_id = 0
                        /\ navs[i].is_active},
                    [i \in DOMAIN navs |-> navs[i].order_index], tb)
        sub == [k \in DOMAIN nav_items |-> get_nav_children(nav_items[k], tb, 1)]
    IN  IF \E k \in DOMAIN nav_items : sub[k].raised # "none"
        THEN [raised |-> "RecursionError", value |-> <<>>]
        ELSE [raised |-> "none",
              value |-> [k \in DOMAIN nav_items |->
                            [id |-> nav_items[k],
                             label |-> navs[nav_items[k]].label,
                             url |-> navs[nav_items[k]].url,
                             children |-> sub[k].value]]]

\* mutant of get_template_path: the key is theme, slash, name
get_template_path_bare(site, template_name) ==
    <<sites[site].template_theme, "/", template_name>>

\* mutant of get_template_path: the theme of the first site is used
get_template_path_first(site, template_name) ==
    <<"themes/", sites[1].template_theme, "/", template_name>>

\* app.get_template_path: the pieces of f"themes/{theme}/{template_name}"
get_template_path(site, template_name) ==
    <<"themes/", sites[site].template_theme, "/", template_name>>

----------------------------------------------------------------------------
(* app.dynamic_route.  The body of the try block either raises or renders; *)
(* abort(404) raises werkzeug's NotFound, an HTTPException and so an       *)
(* Exception, inside the try block.  site and page are the handler's local *)
(* variables when it ends (0: None or never assigned); stages lists the    *)
(* steps the handler invoked, in order.  fails names the step whose store  *)
(* query raises SQLAlchemyError when it is made ("none": the store works). *)

Stages ==
    <<"resolve_site", "resolve_page", "get_content_blocks",
      "build_navigation", "get_template_path", "render_template">>

Failures ==
    {"none", "resolve_site", "resolve_page", "get_content_blocks",
     "build_navigation"}

\* the steps invoked when the handler stops in step `stage`
StagesUpTo(stage) ==
    SubSeq(Stages, 1, CHOOSE k \in DOMAIN Stages : Stages[k] = stage)

\* the try block left by exception exc, raised in step `stage`
Raised(exc, site, page, stage) ==
    [raised |-> exc, site |-> site, page |-> page, content_blocks |-> <<>>,
     navigation |-> <<>>, template_path |-> <<>>,
     stages |-> StagesUpTo(stage)]

\* lines 104-120, once site and page are resolved
RouteRender(site, page, tbBlocks, tbNavs, fails) ==
    LET content_blocks == get_content_blocks(page, tbBlocks)
        navigation == build_navigation(site, tbNavs)
        template_path == get_template_path(site, "page.html")
    IN  IF fails = "get_content_blocks"
        THEN Raised("SQLAlchemyError", site, page, "get_content_blocks")
        ELSE IF fails = "build_navigation"
        THEN Raised("SQLAlchemyError", site, page, "build_navigation")
        ELSE IF navigation.raised # "none"
        THEN Raised(navigation.raised, site, page, "build_navigation")
        ELSE [raised |-> "none", site |-> site, page |-> page,
              content_blocks |-> content_blocks,
              navigation |-> navigation.value,
              template_path |-> template_path,
              stages |-> Stages]

\* line 85
path_parts(url_path) == Split(Strip(url_path))

\* line 89
site_prefix(parts) == parts[1]

\* mutant of page_path: the last segment is taken, so that a request with
\* only the site segment looks for a page named like the site
page_path_last(parts) == parts[Len(parts)]

\* line 90
page_path(parts) == IF Len(parts) > 1 THEN parts[2] ELSE S_home

\* lines 94 and 100: `if not site`, `if not page`
is_missing(row) == row = 0

\* mutant of RouteAfterSite: the page lookup is made, and misses, before
\* the site is looked at
RouteAfterSite_eager(parts, site, fails) ==
    {Raised("NotFound", site, 0, "resolve_page")}

\* lines 93-120: the outcomes of the try block once the site lookup returned
RouteAfterSite(parts, site, fails) ==
    IF is_missing(site)
    THEN {Raised("NotFound", 0, 0, "resolve_site")}
    ELSE IF fails = "resolve_page"
    THEN {Raised("SQLAlchemyError", site, 0, "resolve_page")}
    ELSE UNION {
           IF is_missing(page)
           THEN {Raised("NotFound", site, 0, "resolve_page")}
           ELSE {RouteRender(site, page, tbB, tbN, fails) :
                   tbB \in Permutations(DOMAIN blocks),
                   tbN \in Permutations(DOMAIN navs)}
           : page \in resolve_page(site, page_path(parts))}

\* lines 84-120: the outcomes of the try block
RouteTry(url_path, fails) ==
    LET parts == path_parts(url_path)
    IN  IF Len(parts) < 1
        THEN {[Raised("NotFound", 0, 0, "resolve_site") EXCEPT !.stages = <<>>]}
        ELSE IF fails = "resolve_site"
        THEN {Raised("SQLAlchemyError", 0, 0, "resolve_site")}
        ELSE UNION {RouteAfterSite(parts, site, fails)
                      : site \in resolve_site(site_prefix(parts))}

\* mutant of RouteExcept: a store error is answered like a missing page
RouteExcept_404(exc) ==
    CASE exc = "SQLAlchemyError" -> 404
      [] OTHER -> 500

\* lines 122-138: the except clauses and the error handlers
RouteExcept(exc) ==
    CASE exc = "SQLAlchemyError" -> 500
      [] OTHER -> 500

\* the responses dynamic_route may give to url_path; outcome is the
\* exception that left the try block and was logged ("none": rendered)
dynamic_route(url_path, fails) ==
    {[status |-> IF r.raised = "none" THEN 200 ELSE RouteExcept(r.raised),
      outcome |-> r.raised,
      site |-> r.site, page |-> r.page,
      content_blocks |-> r.content_blocks, navigation |-> r.navigation,
      template_path |-> r.template_path,
      stages |-> r.stages] : r \in RouteTry(url_path, fails)}

(* models.ContentBlock: the type validator and render().  Markup is a      *)
(* sequence whose elements are the literal pieces of the format strings,   *)
(* the type name, and the characters of the title and the content.         *)

AllowedBlockTypes ==
    {"text", "html", "image", "list", "quote", "code", "video", "gallery"}

\* ContentBlock.validate_block_type
validate_block_type(block_type) ==
    [raised |-> IF block_type \notin AllowedBlockTypes
                THEN "ValueError" ELSE "none",
     value |-> block_type]

\* mutant of list_items: the lines are neither trimmed nor filtered
list_items_raw(content) == SplitLines(content)

\* line 179: the items of a list block
list_items(content) ==
    LET lines == SplitLines(content)
        kept == SelectSeq(lines, LAMBDA item : StripWs(item) # <<>>)
    IN  [k \in DOMAIN kept |-> StripWs(kept[k])]

\* ContentBlock.render
render(block) ==
    CASE block.block_type = "text" ->
           <<"<div class='content-block text'><p>">> \o block.content
               \o <<"</p></div>">>
      [] block.block_type = "html" ->
           <<"<div class='content-block html'>">> \o block.content
               \o <<"</div>">>
      [] block.block_type = "image" ->
           LET alt_text == IF block.title # <<>> THEN block.title
                           ELSE <<"Content Image">>
           IN  <<"<div class='content-block image'><img src='">>
                   \o block.content \o <<"' alt='">> \o alt_text
                   \o <<"'></div>">>
      [] block.block_type = "list" ->
           LET items == list_items(block.content)
               list_html ==
                   <<"<ul>">>
                       \o Join([k \in DOMAIN items |->
                                   <<"<li>">> \o items[k] \o <<"</li>">>])
                       \o <<"</ul>">>
           IN  <<"<div class='content-block list'>">> \o list_html
                   \o <<"</div>">>
      [] block.block_type = "quote" ->
           <<"<div class='content-block quote'><blockquote>">>
               \o block.content \o <<"</blockquote></div>">>
      [] block.block_type = "code" ->
           <<"<div class='content-block code'><pre><code>">>
               \o block.content \o <<"</code></pre></div>">>
      [] OTHER ->
           <<"<div class='content-block ", block.block_type, "'>">>
               \o block.content \o <<"</div>">>

\* sep.join(parts)
RECURSIVE JoinWith(_, _)
JoinWith(sep, parts) ==
    IF parts = <<>> THEN <<>>
    ELSE IF Len(parts) = 1 THEN Head(parts)
    ELSE Head(parts) \o sep \o JoinWith(sep, Tail(parts))

\* app.render_content_blocks: the markup appended for one block
render_content_block(block) ==
    CASE block.block_type = "text" ->
           <<"<div class='content-block text'>">> \o block.content
               \o <<"</div>">>
      [] block.block_type = "html" ->
           <<"<div class='content-block html'>">> \o block.content
               \o <<"</div>">>
      [] block.block_type = "image" ->
           <<"<div class='content-block image'><img src='">>
               \o block.content \o <<"' alt='Content Image'></div>">>
      [] block.block_type = "list" ->
           LET items == SplitLines(block.content)
               kept == SelectSeq(items, LAMBDA item : StripWs(item) # <<>>)
               list_html ==
                   <<"<ul>">>
                       \o Join([k \in DOMAIN kept |->
                                   <<"<li>">> \o kept[k] \o <<"</li>">>])
                       \o <<"</ul>">>
           IN  <<"<div class='content-block list'>">> \o list_html
                   \o <<"</div>">>
      [] OTHER ->
           <<"<div class='content-block unknown'>">> \o block.content
               \o <<"</div>">>

\* app.render_content_blocks
render_content_blocks(content_blocks) ==
    JoinWith(<<"\n">>,
             [k \in DOMAIN content_blocks |->
                 render_content_block(content_blocks[k])])

(* The plugin registries: dictionaries of models.py and app.py, from a     *)
(* type tag or theme name to the name of the registered class.             *)

\* dict[key] = value
DictSet(dict, key, value) ==
    [k \in DOMAIN dict \cup {key} |-> IF k = key THEN value ELSE dict[k]]

\* dict.get(key, default)
DictGet(dict, key, default) ==
    IF key \in DOMAIN dict THEN dict[key] ELSE default

\* mutant of register_content_block_type: a tag keeps its first class
register_content_block_type_once(block_type, block_class) ==
    IF block_type \in DOMAIN CONTENT_BLOCK_TYPES
    THEN CONTENT_BLOCK_TYPES
    ELSE DictSet(CONTENT_BLOCK_TYPES, block_type, block_class)

\* models.register_content_block_type: the dictionary after the call
register_content_block_type(block_type, block_class) ==
    DictSet(CONTENT_BLOCK_TYPES, block_type, block_class)

\* models.get_content_block_class
get_content_block_class(block_type) ==
    DictGet(CONTENT_BLOCK_TYPES, block_type, "ContentBlock")

\* app.register_content_renderer: the dictionary after the call
register_content_renderer(block_type, renderer_class) ==
    DictSet(CONTENT_RENDERERS, block_type, renderer_class)

\* app.register_theme_customizer: the dictionary after the call
register_theme_customizer(theme_name, customizer_class) ==
    DictSet(THEME_CUSTOMIZERS, theme_name, customizer_class)

\* the render() of a renderer class: TestRenderer of the tests and
\* app.ContentBlockRenderer
renderer_render(renderer_class, block) ==
    CASE renderer_class = "TestRenderer" ->
           <<"<div class='test-render'>">> \o block.content \o <<"</div>">>
      [] OTHER ->
           <<"<div class='content-block'>">> \o block.content \o <<"</div>">>

----------------------------------------------------------------------------
(* Inputs. *)

PrefixInputs == {S_B_b, S_test, S_test2, <<"-">>, <<>>}
ThemeInputs == {"blog", "neon"}

\* themes assigned to an existing site
ThemeAssignments == AllowedThemes \cup {"neon"}

\* template names handed to get_template_path
TemplateNames == {"page.html", "layout.html"}
PathInputs == {S_home, S_About, S_a_b, <<>>}
OrderIndexes == {0, 1}

\* request paths as Flask's <path:url_path> converter hands them over:
\* non-empty, no leading slash
Urls ==
    {S_test, S_test \o SLASH, S_test \o SLASH \o S_home,
     S_test \o SLASH \o S_about, S_test \o SLASH \o S_a_b,
     S_Test \o SLASH \o S_home, S_tes \o SLASH \o S_home,
     S_b_b, S_b_b \o SLASH \o S_about, S_B_b \o SLASH \o S_home}

\* the pages add_new_site.py announces
RestaurantUrls ==
    {S_restaurant \o SLASH \o path :
        path \in {S_home, S_menu, S_about, S_reservations}}

\* request paths served while the store may fail
StoreUrls ==
    {S_test \o SLASH \o S_home, S_test \o SLASH \o S_About,
     S_tes \o SLASH \o S_home}

\* labels and urls given to the NavigationItem constructor
NavLabels == {"Home", "About"}
NavUrls == {S_home, SLASH \o S_about, S_http_x, <<>>}

\* block types given to the ContentBlock constructor
BlockTypes == AllowedBlockTypes \cup {"unknown_type"}

BlockTitles == {<<>>, <<"T">>}

BlockContents ==
    {<<>>,
     <<"a">>,
     <<"a", " ", "b">>,
     <<"a", "\n", "b">>,
     <<" ", "a", " ", "\n", "\n", "b">>,
     <<"a", "\n", " ", "\t", "\n", "b", "\n">>,
     <<"\n", " ">>,
     <<"b", "\n", "a", "\n", "b">>}

\* tags and classes handed to the registration functions
ClassTags == {"custom", "text"}
BlockClasses == {"ContentBlock", "CustomBlock"}
RendererTags == {"test_type", "text"}
RendererClasses == {"TestRenderer", "ContentBlockRenderer"}
CustomizerThemes == {"blog"}
CustomizerClasses == {"ThemeCustomizer"}

\* tags asked of get_content_block_class
LookupTags == {"custom", "text", "unknown"}

----------------------------------------------------------------------------
(* Write side: the constructors and column assignments of models.py, as    *)
(* the seed scripts and the tests use them (add, then commit).  call and   *)
(* ret record the last call that returns or raises something and its       *)
(* outcome; a write that cannot fail leaves nothing on record, so that a   *)
(* recorded response is always one served in the current store state.      *)

\* Site(path_prefix=..., template_theme=...); unique path_prefix
AddSite(path_prefix, template_theme) ==
    LET vp == validate_path_prefix(path_prefix)
        vt == validate_template_theme(template_theme)
        raised ==
            IF vp.raised # "none" THEN vp.raised
            ELSE IF vt.raised # "none" THEN vt.raised
            ELSE IF \E i \in DOMAIN sites : sites[i].path_prefix = vp.value
                 THEN "IntegrityError"
                 ELSE "none"
    IN  /\ sites' = IF raised = "none"
                    THEN Append(sites, SiteRow(vp.value, vt.value, TRUE))
                    ELSE sites
        /\ call' = [op |-> "Site", path_prefix |-> path_prefix,
                    template_theme |-> template_theme]
        /\ ret' = [raised |-> raised]
        /\ UNCHANGED <<pages, blocks, navs, registries>>

\* site.template_theme = ...
SetSiteTheme(i, template_theme) ==
    LET vt == validate_template_theme(template_theme)
    IN  /\ i \in DOMAIN sites
        /\ sites' = IF vt.raised = "none"
                    THEN [sites EXCEPT ![i].template_theme = vt.value]
                    ELSE sites
        /\ call' = [op |-> "set_template_theme", site |-> i,
                    template_theme |-> template_theme]
        /\ ret' = [raised |-> vt.raised]
        /\ UNCHANGED <<pages, blocks, navs, registries>>

\* Page(site_id=..., path=...)
AddPage(site_id, path) ==
    LET vp == validate_path(path)
    IN  /\ site_id \in DOMAIN sites
        /\ pages' = IF vp.raised = "none"
                    THEN Append(pages, PageRow(site_id, vp.value, TRUE))
                    ELSE pages
        /\ call' = [op |-> "Page", site_id |-> site_id, path |-> path]
        /\ ret' = [raised |-> vp.raised]
        /\ UNCHANGED <<sites, blocks, navs, registries>>

\* ContentBlock(page_id=..., order_index=...)
AddBlock(page_id, order_index) ==
    /\ page_id \in DOMAIN pages
    /\ blocks' = Append(blocks, BlockRow(page_id, order_index, TRUE))
    /\ call' = NoCall
    /\ ret' = NoRet
    /\ UNCHANGED <<sites, pages, navs, registries>>

\* NavigationItem(site_id=..., parent_id=..., order_index=...)
AddNav(site_id, parent_id, order_index) ==
    /\ site_id \in DOMAIN sites
    /\ parent_id \in {0} \cup DOMAIN navs
    /\ navs' = Append(navs, NavRow(site_id, "Home", validate_url(S_home).value,
                                   parent_id, order_index, TRUE))
    /\ call' = NoCall
    /\ ret' = NoRet
    /\ UNCHANGED <<sites, pages, blocks, registries>>

\* NavigationItem(site_id=..., label=..., url=..., is_external=...,
\* order_index=1), a top-level item
AddNavItem(site_id, label, url, is_external) ==
    LET vu == validate_url(url)
    IN  /\ site_id \in DOMAIN sites
        /\ navs' = IF vu.raised = "none"
                   THEN Append(navs,
                               [NavRow(site_id, label, vu.value, 0, 1, TRUE)
                                    EXCEPT !.is_external = is_external])
                   ELSE navs
        /\ call' = [op |-> "NavigationItem", site_id |-> site_id,
                    label |-> label, url |-> url,
                    is_external |-> is_external]
        /\ ret' = [raised |-> vu.raised]
        /\ UNCHANGED <<sites, pages, blocks, registries>>

\* add_new_site.add_restaurant_site: the site, its four navigation items,
\* its four pages and their nine content blocks, then the commit.  An
\* exception ends the script before anything is committed.
AddRestaurantSite ==
    LET vp == validate_path_prefix(S_restaurant)
        vt == validate_template_theme("restaurant")
        raised ==
            IF vp.raised # "none" THEN vp.raised
            ELSE IF vt.raised # "none" THEN vt.raised
            ELSE IF \E i \in DOMAIN sites : sites[i].path_prefix = vp.value
                 THEN "IntegrityError"
                 ELSE "none"
        site == Len(sites) + 1
        page == Len(pages)
        paths == <<S_home, S_menu, S_about, S_reservations>>
        labels == <<"Home", "Menu", "About", "Reservations">>
    IN  /\ call' = [op |-> "add_restaurant_site"]
        /\ ret' = [raised |-> raised]
        /\ IF raised # "none"
           THEN UNCHANGED store
           ELSE /\ sites' = Append(sites, SiteRow(vp.value, vt.value, TRUE))
                /\ navs' = navs \o
                       [k \in 1..4 |->
                           NavRow(site, labels[k], validate_url(paths[k]).value,
                                  0, k, TRUE)]
                /\ pages' = pages \o
                       [k \in 1..4 |->
                           PageRow(site, validate_path(paths[k]).value, TRUE)]
                /\ blocks' = blocks \o
                       <<BlockRow(page + 1, 1, TRUE), BlockRow(page + 1, 2, TRUE),
                         BlockRow(page + 2, 1, TRUE), BlockRow(page + 2, 2, TRUE),
                         BlockRow(page + 2, 3, TRUE),
                         BlockRow(page + 3, 1, TRUE), BlockRow(page + 3, 2, TRUE),
                         BlockRow(page + 4, 1, TRUE), BlockRow(page + 4, 2, TRUE)>>
        /\ UNCHANGED registries

\* site.is_active = value
SetSiteActive(id, value) ==
    /\ id \in DOMAIN sites
    /\ sites' = [sites EXCEPT ![id].is_active = value]
    /\ call' = NoCall
    /\ ret' = NoRet
    /\ UNCHANGED <<pages, blocks, navs, registries>>

\* page.is_active = value
SetPageActive(id, value) ==
    /\ id \in DOMAIN pages
    /\ pages' = [pages EXCEPT ![id].is_active = value]
    /\ call' = NoCall
    /\ ret' = NoRet
    /\ UNCHANGED <<sites, blocks, navs, registries>>

\* block.is_active = value
SetBlockActive(id, value) ==
    /\ id \in DOMAIN blocks
    /\ blocks' = [blocks EXCEPT ![id].is_active = value]
    /\ call' = NoCall
    /\ ret' = NoRet
    /\ UNCHANGED <<sites, pages, navs, registries>>

\* item.is_active = value
SetNavActive(id, value) ==
    /\ id \in DOMAIN navs
    /\ navs' = [navs EXCEPT ![id].is_active = value]
    /\ call' = NoCall
    /\ ret' = NoRet
    /\ UNCHANGED <<sites, pages, blocks, registries>>

\* item.parent_id = parent_id (a same-table reference, any row or None)
SetNavParent(id, parent_id) ==
    /\ id \in DOMAIN navs
    /\ parent_id \in {0} \cup DOMAIN navs
    /\ navs' = [navs EXCEPT ![id].parent_id = parent_id]
    /\ call' = NoCall
    /\ ret' = NoRet
    /\ UNCHANGED <<sites, pages, blocks, registries>>

----------------------------------------------------------------------------
(* Read side: a request, and the direct calls the tests make. *)

\* mutant of DynamicRoute: serving a request deactivates every page
DynamicRoute_touching(url_path, fails) ==
    /\ \E r \in dynamic_route(url_path, fails) : ret' = r
    /\ call' = [op |-> "dynamic_route", url_path |-> url_path,
                fails |-> fails]
    /\ pages' = [p \in DOMAIN pages |-> [pages[p] EXCEPT !.is_active = FALSE]]
    /\ UNCHANGED <<sites, blocks, navs, registries>>

DynamicRoute(url_path, fails) ==
    /\ \E r \in dynamic_route(url_path, fails) : ret' = r
    /\ call' = [op |-> "dynamic_route", url_path |-> url_path,
                fails |-> fails]
    /\ UNCHANGED <<store, registries>>

\* render_content_blocks([block]) on the block just constructed
RenderContentBlocks ==
    /\ call.op = "ContentBlock"
    /\ ret.raised = "none"
    /\ call' = [op |-> "render_content_blocks", block |-> ret.block]
    /\ ret' = [raised |-> "none", value |-> render_content_blocks(<<ret.block>>)]
    /\ UNCHANGED <<store, registries>>

GetTemplatePath(site, template_name) ==
    /\ site \in DOMAIN sites
    /\ ret' = [raised |-> "none",
               value |-> get_template_path(site, template_name)]
    /\ call' = [op |-> "get_template_path", site |-> site,
                template_name |-> template_name]
    /\ UNCHANGED <<store, registries>>

\* item.get_full_url()
GetFullUrl(i) ==
    /\ i \in DOMAIN navs
    /\ ret' = [raised |-> "none", value |-> get_full_url(i)]
    /\ call' = [op |-> "get_full_url", item |-> i]
    /\ UNCHANGED <<store, registries>>

GetContentBlocks(page) ==
    /\ page \in DOMAIN pages
    /\ \E tb \in Permutations(DOMAIN blocks) :
           ret' = [raised |-> "none", value |-> get_content_blocks(page, tb)]
    /\ call' = [op |-> "get_content_blocks", page |-> page]
    /\ UNCHANGED <<store, registries>>

BuildNavigation(site) ==
    /\ site \in DOMAIN sites
    /\ \E tb \in Permutations(DOMAIN navs) : ret' = build_navigation(site, tb)
    /\ call' = [op |-> "build_navigation", site |-> site]
    /\ UNCHANGED <<store, registries>>

\* build_navigation when the database returns ties in id order
BuildNavigationScan(site) ==
    /\ site \in DOMAIN sites
    /\ ret' = build_navigation(site, [i \in DOMAIN navs |-> i])
    /\ call' = [op |-> "build_navigation", site |-> site]
    /\ UNCHANGED <<store, registries>>

\* ContentBlock(block_type=..., title=..., content=...), as the rendering
\* tests construct one without storing it
NewContentBlock(block_type, title, content) ==
    LET v == validate_block_type(block_type)
    IN  /\ call' = [op |-> "ContentBlock", block_type |-> block_type,
                    title |-> title, content |-> content]
        /\ ret' = [raised |-> v.raised,
                   block |-> IF v.raised = "none"
                             THEN [block_type |-> v.value, title |-> title,
                                   content |-> content]
                             ELSE [block_type |-> "", title |-> <<>>,
                                   content |-> <<>>]]
        /\ UNCHANGED <<store, registries>>

\* block.render() on the block just constructed
RenderBlock ==
    /\ call.op = "ContentBlock"
    /\ ret.raised = "none"
    /\ call' = [op |-> "render", block |-> ret.block]
    /\ ret' = [raised |-> "none", value |-> render(ret.block)]
    /\ UNCHANGED <<store, registries>>

RegisterContentBlockType(block_type, block_class) ==
    /\ CONTENT_BLOCK_TYPES' =
           register_content_block_type(block_type, block_class)
    /\ call' = [op |-> "register_content_block_type",
                block_type |-> block_type, block_class |-> block_class]
    /\ ret' = NoRet
    /\ UNCHANGED <<store, CONTENT_RENDERERS, THEME_CUSTOMIZERS>>

RegisterContentRenderer(block_type, renderer_class) ==
    /\ CONTENT_RENDERERS' =
           register_content_renderer(block_type, renderer_class)
    /\ call' = [op |-> "register_content_renderer",
                block_type |-> block_type, renderer_class |-> renderer_class]
    /\ ret' = NoRet
    /\ UNCHANGED <<store, CONTENT_BLOCK_TYPES, THEME_CUSTOMIZERS>>

RegisterThemeCustomizer(theme_name, customizer_class) ==
    /\ THEME_CUSTOMIZERS' =
           register_theme_customizer(theme_name, customizer_class)
    /\ call' = [op |-> "register_theme_customizer",
                theme_name |-> theme_name,
                customizer_class |-> customizer_class]
    /\ ret' = NoRet
    /\ UNCHANGED <<store, CONTENT_BLOCK_TYPES, CONTENT_RENDERERS>>

GetContentBlockClass(block_type) ==
    /\ call' = [op |-> "get_content_block_class", block_type |-> block_type]
    /\ ret' = [raised |-> "none", value |-> get_content_block_class(block_type)]
    /\ UNCHANGED <<store, registries>>

----------------------------------------------------------------------------
(* Initial states. *)

\* the registries when models.py and app.py are imported
InitRegistries ==
    /\ CONTENT_BLOCK_TYPES = [t \in AllowedBlockTypes |-> "ContentBlock"]
    /\ CONTENT_RENDERERS = [t \in {} |-> "ContentBlockRenderer"]
    /\ THEME_CUSTOMIZERS = [t \in {} |-> "ThemeCustomizer"]

\* tests/test_app.py create_test_data: the store every test starts from
Init ==
    /\ sites = <<SiteRow(S_test, "corporate", TRUE)>>
    /\ pages = <<PageRow(1, S_home, TRUE)>>
    /\ blocks = <<BlockRow(1, 1, TRUE)>>
    /\ navs = <<NavRow(1, "Home", validate_url(S_home).value, 0, 1, TRUE)>>
    /\ call = NoCall
    /\ ret = NoRet
    /\ InitRegistries

\* the fixture after test_page_creation: a second site with a page
InitTwoSites ==
    /\ sites = <<SiteRow(S_test, "corporate", TRUE),
                 SiteRow(S_test2, "portfolio", TRUE)>>
    /\ pages = <<PageRow(1, S_home, TRUE), PageRow(2, S_about, TRUE)>>
    /\ blocks = <<BlockRow(1, 1, TRUE)>>
    /\ navs = <<NavRow(1, "Home", validate_url(S_home).value, 0, 1, TRUE)>>
    /\ call = NoCall
    /\ ret = NoRet
    /\ InitRegistries

----------------------------------------------------------------------------
(* Specifications. *)

\* routing: sites and pages change, requests are served
Next ==
    \/ \E p \in PrefixInputs, t \in ThemeInputs :
           Len(sites) < MaxSites /\ AddSite(p, t)
    \/ \E s \in 1..MaxSites, p \in PathInputs :
           Len(pages) < MaxPages /\ AddPage(s, p)
    \/ \E i \in 1..MaxSites, v \in BOOLEAN : SetSiteActive(i, v)
    \/ \E i \in 1..MaxPages, v \in BOOLEAN : SetPageActive(i, v)
    \/ \E u \in Urls : DynamicRoute(u, "none")

Spec == Init /\ [][Next]_vars

\* routing while a store query may fail: as Spec, with the requests that
\* reach every step of the handler
NextStore ==
    \/ \E p \in {S_tes, S_test} :
           Len(sites) < MaxSites /\ AddSite(p, "blog")
    \/ \E s \in 1..MaxSites, p \in {S_home, S_About} :
           Len(pages) < MaxPages /\ AddPage(s, p)
    \/ \E i \in 1..MaxSites, v \in BOOLEAN : SetSiteActive(i, v)
    \/ \E i \in 1..MaxPages, v \in BOOLEAN : SetPageActive(i, v)
    \/ \E c \in RendererClasses : RegisterContentRenderer("text", c)
    \/ \E u \in StoreUrls, f \in Failures : DynamicRoute(u, f)

SpecStore == Init /\ [][NextStore]_vars

\* content assembly: blocks change, get_content_blocks is called
NextBlocks ==
    \/ \E p \in 1..MaxPages, o \in OrderIndexes :
           Len(blocks) < MaxBlocks /\ AddBlock(p, o)
    \/ \E i \in 1..MaxBlocks, v \in BOOLEAN : SetBlockActive(i, v)
    \/ \E p \in 1..MaxPages : GetContentBlocks(p)

SpecBlocks == InitTwoSites /\ [][NextBlocks]_vars

\* navigation: items change, build_navigation is called
NextNav ==
    \/ \E s \in 1..MaxSites, p \in 0..MaxNavs, o \in OrderIndexes :
           Len(navs) < MaxNavs /\ AddNav(s, p, o)
    \/ \E i \in 1..MaxNavs, v \in BOOLEAN : SetNavActive(i, v)
    \/ \E i \in 1..MaxNavs, p \in 0..MaxNavs : SetNavParent(i, p)
    \/ \E s \in 1..MaxSites : BuildNavigation(s)

SpecNav == Init /\ [][NextNav]_vars

SpecNavSites == InitTwoSites /\ [][NextNav]_vars

\* a deep menu: every new item is the child of the item created before it,
\* so no two items share a parent and no order is left to the database
NextNavChain ==
    \/ Len(navs) < MaxChain /\ AddNav(1, Len(navs), 0)
    \/ \E i \in 1..MaxNavs, v \in BOOLEAN : SetNavActive(i, v)
    \/ BuildNavigationScan(1)

SpecNavChain == Init /\ [][NextNavChain]_vars

\* theme selection: sites are created, themes are reassigned, template
\* paths are asked for
NextTheme ==
    \/ \E p \in {S_test2, S_B_b}, t \in ThemeInputs :
           Len(sites) < MaxSites /\ AddSite(p, t)
    \/ \E i \in 1..MaxSites, t \in ThemeAssignments : SetSiteTheme(i, t)
    \/ \E i \in 1..MaxSites, n \in TemplateNames : GetTemplatePath(i, n)

SpecTheme == Init /\ [][NextTheme]_vars

\* navigation urls: items are created with a label and a url, their full
\* url is asked for and the menu is built
NextNavUrl ==
    \/ \E l \in NavLabels, u \in NavUrls, x \in BOOLEAN :
           Len(navs) < MaxNavs /\ AddNavItem(1, l, u, x)
    \/ \E i \in 1..MaxNavs : GetFullUrl(i)
    \/ BuildNavigation(1)

SpecNavUrl == Init /\ [][NextNavUrl]_vars

\* the live demo: the script is run while the application serves requests
NextScripts ==
    \/ Next
    \/ Len(sites) < MaxSites /\ AddRestaurantSite
    \/ \E u \in RestaurantUrls : DynamicRoute(u, "none")

SpecScripts == Init /\ [][NextScripts]_vars

\* rendering: blocks are constructed and rendered
NextRender ==
    \/ \E t \in BlockTypes, h \in BlockTitles, c \in BlockContents :
           NewContentBlock(t, h, c)
    \/ RenderBlock
    \/ RenderContentBlocks

SpecRender == Init /\ [][NextRender]_vars

\* plugins: classes and renderers are registered and looked up while
\* blocks are constructed and rendered
NextRegistry ==
    \/ \E t \in ClassTags, c \in BlockClasses : RegisterContentBlockType(t, c)
    \/ \E t \in RendererTags, c \in RendererClasses :
           RegisterContentRenderer(t, c)
    \/ \E t \in CustomizerThemes, c \in CustomizerClasses :
           RegisterThemeCustomizer(t, c)
    \/ \E t \in LookupTags : GetContentBlockClass(t)
    \/ \E t \in {"text", "video"}, c \in {<<"a">>, <<"a", "\n", "b">>} :
           NewContentBlock(t, <<>>, c)
    \/ RenderBlock

SpecRegistry == Init /\ [][NextRegistry]_vars

----------------------------------------------------------------------------
(* Properties of routing (under Spec).  A recorded response is that of a   *)
(* request served in the current store state.                              *)

\* a request was served
Requested == call.op = "dynamic_route"

\* a request was served while every store query worked
Routed == Requested /\ call.fails = "none"

\* the segments of the recorded request path
Segments == Split(Strip(call.url_path))

\* the active sites whose stored prefix is exactly seg
ActiveSitesAt(seg) ==
    {i \in DOMAIN sites : sites[i].is_active /\ sites[i].path_prefix = seg}

\* the active pages of site i with exactly this path
ActivePagesAt(i, path) ==
    {p \in DOMAIN pages :
        pages[p].is_active /\ pages[p].site_id = i /\ pages[p].path = path}

\* C1: a request whose first segment matches no active site prefix, or
\* whose first segment matches an active site but whose page segment matches
\* no active page of that site, is answered with status 404.
C1_UnknownPathIs404 ==
    Routed =>
        LET first == Segments[1]
            noSite == ActiveSitesAt(first) = {}
            noPage == /\ Len(Segments) > 1
                      /\ \E i \in ActiveSitesAt(first) :
                             ActivePagesAt(i, Segments[2]) = {}
        IN  (noSite \/ noPage) => ret.status = 404

\* C2: a path that begins with the prefix of an active site resolves to
\* exactly that site; a first segment that is the prefix of no site, or only
\* of an inactive site, resolves to no site and the request does not succeed
\* (no partial-prefix match, never a different site).
C2_SiteResolution ==
    Routed =>
        LET first == Segments[1]
        IN  /\ \A i \in ActiveSitesAt(first) : ret.site = i
            /\ ActiveSitesAt(first) = {} => ret.site = 0 /\ ret.status # 200

\* C2 witness: a request for the second site, which is active while the
\* first site is not, resolved to the second site.
C2_Witness ==
    /\ Routed
    /\ Len(sites) >= 2
    /\ ~sites[1].is_active
    /\ ActiveSitesAt(Segments[1]) = {2}
    /\ ret.site = 2

\* C3: a request with only the site segment is resolved as page "home" of
\* that site: it succeeds exactly when the site has an active page with path
\* "home", then returns such a page, and never falls back to another page.
C3_DefaultsToHome ==
    Routed /\ Len(Segments) = 1 =>
        \A i \in ActiveSitesAt(Segments[1]) :
            /\ ret.status = 200 <=> ActivePagesAt(i, S_home) # {}
            /\ ret.status = 200 => ret.page \in ActivePagesAt(i, S_home)
            /\ ActivePagesAt(i, S_home) = {} => ret.page = 0

\* C3 witness: a site-only request was refused although the site has another
\* active page, because it has no active "home" page.
C3_Witness ==
    /\ Routed
    /\ Len(Segments) = 1
    /\ \E i \in ActiveSitesAt(Segments[1]) :
           /\ ActivePagesAt(i, S_home) = {}
           /\ \E p \in DOMAIN pages :
                  pages[p].is_active /\ pages[p].site_id = i
    /\ ret.status # 200

\* C4: the first segment is lower-cased before the site lookup, so a request
\* whose first segment differs from an active site's prefix only in letter
\* case resolves to that site.
C4_CaseNormalized ==
    Routed =>
        \A i \in ActiveSitesAt(Lower(Segments[1])) : ret.site = i

----------------------------------------------------------------------------
(* Properties of content assembly (under SpecBlocks). *)

Assembled == call.op = "get_content_blocks"

\* C5: get_content_blocks(page) returns exactly the active content blocks of
\* that page (no inactive block, no block of another page, none missing,
\* none twice), in non-decreasing order of order_index.
C5_ActiveBlocksInOrder ==
    Assembled =>
        LET out == ret.value
            want == {b \in DOMAIN blocks :
                        blocks[b].page_id = call.page /\ blocks[b].is_active}
        IN  /\ {out[k] : k \in DOMAIN out} = want
            /\ Len(out) = Cardinality(want)
            /\ \A k \in 1..(Len(out) - 1) :
                   blocks[out[k]].order_index <= blocks[out[k + 1]].order_index

\* C5 witness: two blocks came back, the later created one first because of
\* its smaller order_index, while the page also has an inactive block and
\* another page has a block.
C5_Witness ==
    /\ Assembled
    /\ Len(ret.value) = 2
    /\ ret.value[1] > ret.value[2]
    /\ blocks[ret.value[1]].order_index < blocks[ret.value[2]].order_index
    /\ \E b \in DOMAIN blocks :
           blocks[b].page_id = call.page /\ ~blocks[b].is_active
    /\ \E b \in DOMAIN blocks : blocks[b].page_id # call.page

\* C6: active blocks of a page with the same order_index are returned in
\* creation order (ascending id), so the output is the same on every call.
C6_TiesInCreationOrder ==
    Assembled =>
        \A k, l \in DOMAIN ret.value :
            /\ k < l
            /\ blocks[ret.value[k]].order_index = blocks[ret.value[l]].order_index
            => ret.value[k] < ret.value[l]

----------------------------------------------------------------------------
(* Properties of navigation building (under SpecNav, SpecNavSites and      *)
(* SpecNavChain).                                                          *)

Built == call.op = "build_navigation"

\* every entry of a tree, at every depth
RECURSIVE Entries(_)
Entries(tree) ==
    UNION {{tree[k]} \cup Entries(tree[k].children) : k \in DOMAIN tree}

\* the number of levels of a tree
RECURSIVE Depth(_)
Depth(tree) ==
    IF tree = <<>>
    THEN 0
    ELSE LET below == {Depth(tree[k].children) : k \in DOMAIN tree}
         IN  1 + CHOOSE d \in below : \A e \in below : e <= d

\* entries is exactly the items of the set want, each once, in ascending
\* order_index
ListsInOrder(entries, want) ==
    /\ {entries[k].id : k \in DOMAIN entries} = want
    /\ Len(entries) = Cardinality(want)
    /\ \A k \in 1..(Len(entries) - 1) :
           navs[entries[k].id].order_index <= navs[entries[k + 1].id].order_index

\* the items reached from item i by following parent_id at most n times
RECURSIVE Ancestors(_, _)
Ancestors(i, n) ==
    IF i \notin DOMAIN navs \/ n = 0
    THEN {}
    ELSE {i} \cup Ancestors(navs[i].parent_id, n - 1)

\* item i lies on a cycle of parent_id links
OnCycle(i) == i \in Ancestors(navs[i].parent_id, Len(navs))

\* C7: build_navigation(site) returns the active items of the site that have
\* no parent, in ascending order_index, and the children of every entry at
\* every depth are exactly the active items whose parent_id is that entry's
\* id, in ascending order_index.
C7_NavigationTree ==
    Built /\ ret.raised = "none" =>
        /\ ListsInOrder(ret.value,
                        {i \in DOMAIN navs :
                            /\ navs[i].site_id = call.site
                            /\ navs[i].parent_id = 0
                            /\ navs[i].is_active})
        /\ \A e \in Entries(ret.value) :
               ListsInOrder(e.children,
                            {i \in DOMAIN navs :
                                navs[i].parent_id = e.id /\ navs[i].is_active})

\* C7 witness: a tree three levels deep (an entry, its child and the child's
\* child) was built.
C7_Witness ==
    /\ Built
    /\ ret.raised = "none"
    /\ Depth(ret.value) = 3

\* C8: build_navigation(site) terminates for every set of navigation items,
\* also when parent_id links form a cycle: it returns a tree no deeper than
\* the number of items, which holds no item of a cycle, and never exhausts
\* the call stack.
C8_TerminatesOnCycles ==
    Built =>
        /\ ret.raised = "none"
        /\ Depth(ret.value) <= Len(navs)
        /\ \A e \in Entries(ret.value) : ~OnCycle(e.id)

\* C8 witness: a tree was returned while two active items of the site are
\* each other's parent.
C8_Witness ==
    /\ Built
    /\ ret.raised = "none"
    /\ ret.value # <<>>
    /\ \E i, j \in DOMAIN navs :
           /\ i # j
           /\ navs[i].parent_id = j /\ navs[j].parent_id = i
           /\ navs[i].is_active /\ navs[j].is_active
           /\ navs[i].site_id = call.site /\ navs[j].site_id = call.site

\* C9: the descent is cut at a fixed maximum depth (16) whatever the stored
\* data: no returned tree is deeper, however long a chain of parents is.
C9_DepthBounded ==
    Built => ret.raised = "none" /\ Depth(ret.value) <= 16

\* C10: every entry of the tree returned by build_navigation(site), at every
\* depth, is an item of that site.
C10_EntriesOfSite ==
    Built /\ ret.raised = "none" =>
        \A e \in Entries(ret.value) : navs[e.id].site_id = call.site


----------------------------------------------------------------------------
(* Properties of the request pipeline (under SpecStore).                   *)

\* the steps of the recorded request, as a set
Invoked == {ret.stages[k] : k \in DOMAIN ret.stages}

\* the site lookup of the recorded request returned a site
SiteFound ==
    call.fails # "resolve_site" /\ ActiveSitesAt(Segments[1]) # {}

\* the page lookup of the recorded request returned a page of the site
PageFound ==
    /\ SiteFound
    /\ call.fails # "resolve_page"
    /\ ret.page \in ActivePagesAt(ret.site, page_path(Segments))

\* C11: the steps of dynamic_route run in a fixed order and short-circuit:
\* the page lookup runs only after a successful site lookup; block
\* retrieval, navigation building, template selection and rendering run only
\* after a successful page lookup; once a lookup misses or fails, no later
\* step is invoked.
C11_StagesShortCircuit ==
    Requested =>
        /\ \E k \in 0..Len(Stages) : ret.stages = SubSeq(Stages, 1, k)
        /\ "resolve_page" \in Invoked => SiteFound
        /\ Invoked \cap {"get_content_blocks", "build_navigation",
                         "get_template_path", "render_template"} # {}
               => PageFound
        /\ ~SiteFound => ret.stages = <<"resolve_site">>
        /\ SiteFound /\ ~PageFound
               => ret.stages = <<"resolve_site", "resolve_page">>

\* C11 witness: the site was found, the page lookup missed although the
\* store worked, and the handler stopped after the page lookup.
C11_Witness ==
    /\ Requested
    /\ call.fails = "none"
    /\ SiteFound
    /\ ~PageFound
    /\ ret.stages = <<"resolve_site", "resolve_page">>

\* C12: when a store query made while resolving a request (site lookup, page
\* lookup, block listing, navigation listing) fails with a database error,
\* the request ends with status 500: the query is not retried, and the
\* response is neither a 404 nor a page with part of its content.
C12_StoreFailureIs500 ==
    Requested /\ call.fails \in Invoked =>
        /\ ret.status = 500
        /\ ret.stages = StagesUpTo(call.fails)
        /\ ret.content_blocks = <<>>
        /\ ret.navigation = <<>>
        /\ ret.template_path = <<>>

\* C12 witness: site and page were found, the block listing worked and the
\* navigation listing failed; the response is a 500 without content.
C12_Witness ==
    /\ Requested
    /\ call.fails = "build_navigation"
    /\ "build_navigation" \in Invoked
    /\ ret.page # 0
    /\ blocks # <<>>
    /\ ret.status = 500
    /\ ret.content_blocks = <<>>

----------------------------------------------------------------------------
(* Properties of block rendering (under SpecRender). *)

\* a block was constructed
Constructed == call.op = "ContentBlock"

\* a block was rendered
Rendered == call.op = "render"

\* C13: a content block whose type is not one of the built-in types (such
\* as "unknown_type") can be created and rendered without error: render()
\* returns the generic wrapper with the type name as label and the content
\* unchanged.
C13_UnknownTypeRenders ==
    /\ Constructed /\ call.block_type = "unknown_type" => ret.raised = "none"
    /\ Rendered /\ call.block.block_type \notin
                       {"text", "html", "image", "list", "quote", "code"}
           => ret.value = <<"<div class='content-block ",
                            call.block.block_type, "'>">>
                              \o call.block.content \o <<"</div>">>

\* the lines of content, cut at each newline
RECURSIVE LinesOf(_)
LinesOf(content) ==
    IF content = <<>> THEN <<<<>>>>
    ELSE LET rest == LinesOf(Tail(content))
         IN  IF Head(content) = "\n" THEN <<<<>>>> \o rest
             ELSE <<<<Head(content)>> \o Head(rest)>> \o Tail(rest)

\* a line with a character that is not whitespace
NonBlank(line) == \E i \in DOMAIN line : line[i] \notin {" ", "\n", "\t"}

\* line without its leading and trailing whitespace (line is not blank)
Trimmed(line) ==
    LET ix == {i \in DOMAIN line : line[i] \notin {" ", "\n", "\t"}}
        lo == CHOOSE i \in ix : \A j \in ix : i <= j
        hi == CHOOSE i \in ix : \A j \in ix : j <= i
    IN  SubSeq(line, lo, hi)

\* the items between <ul> and </ul>, each without its <li> and </li>
RECURSIVE ItemsOf(_)
ItemsOf(markup) ==
    IF markup = <<>> THEN <<>>
    ELSE LET close == CHOOSE k \in DOMAIN markup :
                          markup[k] = "</li>"
                              /\ \A j \in 1..(k - 1) : markup[j] # "</li>"
         IN  <<SubSeq(markup, 2, close - 1)>>
                 \o ItemsOf(SubSeq(markup, close + 1, Len(markup)))

\* C14: a "list" block is rendered by splitting its content on newlines,
\* trimming each line and dropping the lines that are then empty: one item
\* per remaining line, in the original order, as many items as non-blank
\* lines and no empty item.
C14_ListItems ==
    Rendered /\ call.block.block_type = "list" =>
        LET markup == ret.value
            want == SelectSeq(LinesOf(call.block.content), NonBlank)
            inner == SubSeq(markup, 3, Len(markup) - 2)
            items == ItemsOf(inner)
        IN  /\ markup[1] = "<div class='content-block list'>"
            /\ markup[2] = "<ul>"
            /\ markup[Len(markup) - 1] = "</ul>"
            /\ markup[Len(markup)] = "</div>"
            /\ Len(items) = Len(want)
            /\ \A k \in DOMAIN items :
                   items[k] # <<>> /\ items[k] = Trimmed(want[k])

\* C14 witness: a list block whose content has a padded line, blank lines
\* and a second line was rendered with two items.
C14_Witness ==
    /\ Rendered
    /\ call.block.block_type = "list"
    /\ call.block.content = <<" ", "a", " ", "\n", "\n", "b">>
    /\ ret.value = <<"<div class='content-block list'>", "<ul>",
                     "<li>", "a", "</li>", "<li>", "b", "</li>",
                     "</ul>", "</div>">>

----------------------------------------------------------------------------
(* Properties of template selection (under SpecTheme and Spec). *)

\* C15: when the theme identifier given for a site is not in the allow-list
\* (corporate, blog, portfolio, default), template selection does not fail
\* and does not use that identifier: the default theme is substituted, so
\* the site's template path names theme "default".
C15_InvalidThemeFallsBack ==
    call.op = "set_template_theme" /\ call.template_theme \notin AllowedThemes
        => /\ ret.raised = "none"
           /\ get_template_path(call.site, "page.html")[2] = "default"

\* C16 as stated: the key selected for a served page is exactly the theme
\* of the site, a slash, and the template name, with nothing before or
\* after.
C16_KeyIsThemeSlashName ==
    Routed /\ ret.status = 200 =>
        ret.template_path
            = <<sites[ret.site].template_theme, "/", "page.html">>

\* C16, amended: the key selected for a served page is "themes/", the theme
\* of the resolved site, a slash, and the template file name "page.html".
C16_KeyIsThemesDirThemeFile ==
    Routed /\ ret.status = 200 =>
        ret.template_path
            = <<"themes/", sites[ret.site].template_theme, "/", "page.html">>

\* C16 witness: a page of a second site, with theme blog, was served with
\* the key themes/blog/page.html.
C16_Witness ==
    /\ Routed
    /\ ret.status = 200
    /\ ret.site = 2
    /\ ret.template_path = <<"themes/", "blog", "/", "page.html">>

\* C17: get_template_path(site, name) returns "themes/" + the site's
\* current template_theme + "/" + name, for every allowed theme and every
\* template name, also after template_theme was reassigned.
C17_TemplatePath ==
    call.op = "get_template_path" =>
        /\ sites[call.site].template_theme \in AllowedThemes
        /\ ret.value = <<"themes/", sites[call.site].template_theme, "/",
                         call.template_name>>

\* C17 witness: the fixture site, created with theme corporate, now has
\* theme blog and its layout template is themes/blog/layout.html.
C17_Witness ==
    /\ call.op = "get_template_path"
    /\ call.site = 1
    /\ sites[1].template_theme = "blog"
    /\ ret.value = <<"themes/", "blog", "/", "layout.html">>

----------------------------------------------------------------------------
(* Properties of the plugin registries (under SpecRegistry). *)

\* every tag the model registers or looks up
AllTags == AllowedBlockTypes \cup ClassTags \cup RendererTags \cup LookupTags

\* C18: after register_content_block_type(T, C), get_content_block_class(T)
\* returns C, the latest registration winning, and the base class
\* ContentBlock for a tag never registered; after
\* register_content_renderer(T, R), CONTENT_RENDERERS maps T to R; a
\* registration leaves the entries of every other tag as they were.
C18_Registration ==
    [][ /\ call'.op = "register_content_block_type" =>
             /\ \A t \in AllTags :
                    t = call'.block_type
                        => get_content_block_class(t)' = call'.block_class
             /\ \A t \in AllTags \ {call'.block_type} :
                    /\ get_content_block_class(t)' = get_content_block_class(t)
                    /\ t \in DOMAIN CONTENT_BLOCK_TYPES'
                           <=> t \in DOMAIN CONTENT_BLOCK_TYPES
             /\ CONTENT_RENDERERS' = CONTENT_RENDERERS
        /\ call'.op = "register_content_renderer" =>
             /\ call'.block_type \in DOMAIN CONTENT_RENDERERS'
             /\ CONTENT_RENDERERS'[call'.block_type] = call'.renderer_class
             /\ \A t \in AllTags \ {call'.block_type} :
                    /\ t \in DOMAIN CONTENT_RENDERERS'
                           <=> t \in DOMAIN CONTENT_RENDERERS
                    /\ t \in DOMAIN CONTENT_RENDERERS
                           => CONTENT_RENDERERS'[t] = CONTENT_RENDERERS[t]
             /\ CONTENT_BLOCK_TYPES' = CONTENT_BLOCK_TYPES
        /\ call'.op = "get_content_block_class" /\ call'.block_type = "unknown"
             => ret'.value = "ContentBlock"
      ]_vars

\* C18 witness: the built-in tag "text" was registered again, with class
\* CustomBlock, while "custom" and a renderer for "test_type" stay
\* registered.
C18_Witness ==
    /\ call.op = "register_content_block_type"
    /\ call.block_type = "text"
    /\ CONTENT_BLOCK_TYPES["text"] = "CustomBlock"
    /\ "custom" \in DOMAIN CONTENT_BLOCK_TYPES
    /\ CONTENT_BLOCK_TYPES["custom"] = "CustomBlock"
    /\ "test_type" \in DOMAIN CONTENT_RENDERERS

\* C19: rendering dispatches through the registry of renderers: once a
\* renderer is registered for tag T, rendering a block of type T yields the
\* output of that renderer, not the built-in branch or the generic wrapper.
C19_RegisteredRendererUsed ==
    Rendered /\ call.block.block_type \in DOMAIN CONTENT_RENDERERS =>
        ret.value = renderer_render(
                        CONTENT_RENDERERS[call.block.block_type], call.block)

----------------------------------------------------------------------------
(* Frame of a request (under SpecStore). *)

----------------------------------------------------------------------------
(* Properties of the store as requests see it (under Spec). *)

\* the recorded request names an active site and an active page of it
Servable ==
    \E i \in ActiveSitesAt(Segments[1]) :
        ActivePagesAt(i, page_path(Segments)) # {}

\* C21: a request is resolved against the records as they are when it is
\* made, whatever was written before it: a site inserted with a page is
\* served by the next request for it, and a site or page whose is_active
\* flag was cleared yields NotFound from then on.
C21_ResolvedAgainstCurrentStore ==
    Routed /\ Len(Segments) <= 2 =>
        /\ Servable => ret.status = 200 /\ ret.outcome = "none"
        /\ ~Servable => ret.status # 200 /\ ret.outcome = "NotFound"

\* C21 witness: a site inserted after start-up, with a page inserted after
\* it, was served.
C21_Witness ==
    /\ Routed
    /\ Len(Segments) <= 2
    /\ ret.status = 200
    /\ ret.site = 2
    /\ pages[ret.page].site_id = 2
    /\ sites[1].is_active

----------------------------------------------------------------------------
(* Properties of navigation urls (under SpecNavUrl).  After an item was    *)
(* created, it is the last row of the table.                               *)

\* a navigation item was created
NavCreated == call.op = "NavigationItem" /\ ret.raised = "none"

\* url is neither rooted nor absolute
Relative(url) == url[1] # "/" /\ ~StartsWith(url, <<"h", "t", "t", "p">>)

\* C22: get_full_url() of an item created with a relative, non-rooted url u
\* in a site with prefix P is "/P/u"; a rooted url and an absolute url are
\* returned as they were given.
C22_FullUrl ==
    NavCreated /\ ~call.is_external =>
        LET P == sites[call.site_id].path_prefix
        IN  get_full_url(Len(navs)) =
                IF Relative(call.url)
                THEN <<"/">> \o P \o <<"/">> \o call.url
                ELSE call.url

\* C23: build_navigation reports the label and the url of an entry exactly
\* as they were given when the item was created ("Home" and "home" for an
\* item created with label "Home" and url "home").
C23_LabelAndUrlAsGiven ==
    NavCreated =>
        \A tb \in Permutations(DOMAIN navs) :
            LET built == build_navigation(call.site_id, tb)
            IN  /\ built.raised = "none"
                /\ \E k \in DOMAIN built.value :
                       /\ built.value[k].id = Len(navs)
                       /\ built.value[k].label = call.label
                       /\ built.value[k].url = call.url

----------------------------------------------------------------------------
(* Properties of the stored sites and pages (under Spec). *)

\* prefix is not empty and made of letters, digits, hyphens and underscores
LegalPrefix(prefix) ==
    /\ prefix # <<>>
    /\ \A i \in DOMAIN prefix :
           prefix[i] \in UpperChars \cup LowerChars \cup DigitChars
                             \cup {"-", "_"}

\* C24: creating a Site whose path_prefix is empty or has a character other
\* than letters, digits, hyphen and underscore raises ValueError; a prefix
\* made only of those characters is accepted and stored in lowercase; every
\* stored prefix satisfies the restriction.
C24_PrefixValidation ==
    /\ \A i \in DOMAIN sites : LegalPrefix(sites[i].path_prefix)
    /\ call.op = "Site" =>
           /\ ~LegalPrefix(call.path_prefix) => ret.raised = "ValueError"
           /\ LegalPrefix(call.path_prefix)
                  /\ call.template_theme \in AllowedThemes
                  => /\ ret.raised \in {"none", "IntegrityError"}
                     /\ ret.raised = "none" =>
                            sites[Len(sites)].path_prefix
                                = Lower(call.path_prefix)

\* the recorded request path after its first segment and the slash
Remaining ==
    LET whole == Strip(call.url_path)
    IN  SubSeq(whole, Len(Segments[1]) + 2, Len(whole))

\* C25: the page is looked up by the whole path after the site segment: a
\* request /P/a/b resolves to the active page of P with path "a/b" when there
\* is one and to no page otherwise, never to the page with path "a".
C25_WholeRemainingPath ==
    Routed /\ Len(Segments) > 2 =>
        \A i \in ActiveSitesAt(Segments[1]) :
            /\ ActivePagesAt(i, Remaining) # {}
                   => ret.page \in ActivePagesAt(i, Remaining)
            /\ ActivePagesAt(i, Remaining) = {} => ret.page = 0

\* C26: resolve_page(site, path) never returns an inactive page or a page of
\* another site, even when another site has an active page with that path,
\* and returns nothing when the site has no active page with that path.
C26_PageOfSiteAndActive ==
    Routed /\ ret.site # 0 =>
        /\ ret.page # 0 =>
               /\ pages[ret.page].is_active
               /\ pages[ret.page].site_id = ret.site
               /\ pages[ret.page].path = page_path(Segments)
        /\ ActivePagesAt(ret.site, page_path(Segments)) = {} => ret.page = 0

\* C26 witness: the second site has no page with the requested path, the
\* first site has an active one, and the lookup for the second site
\* returned nothing.
C26_Witness ==
    /\ Routed
    /\ ret.site = 2
    /\ ret.page = 0
    /\ ActivePagesAt(1, page_path(Segments)) # {}

\* C27: at most one active page exists for a (site, path) pair, so the page
\* resolve_page returns is determined by the store and the request.
C27_OneActivePagePerPath ==
    \A p, q \in DOMAIN pages :
        pages[p].is_active /\ pages[q].is_active
            /\ pages[p].site_id = pages[q].site_id
            /\ pages[p].path = pages[q].path
            => p = q

----------------------------------------------------------------------------
(* Properties of the demo script (under SpecScripts). *)

\* C28: add_restaurant_site(), run on a store without a site "restaurant",
\* completes without error and leaves an active site with prefix
\* "restaurant" whose pages home, menu, about and reservations are resolved
\* by the lookups of the pipeline.
C28_RestaurantSiteAdded ==
    call.op = "add_restaurant_site" /\ ret.raised # "IntegrityError" =>
        /\ ret.raised = "none"
        /\ \A site \in resolve_site(S_restaurant) :
               /\ site # 0
               /\ \A path \in {S_home, S_menu, S_about, S_reservations} :
                      0 \notin resolve_page(site, path)

----------------------------------------------------------------------------
(* Properties of inactive navigation items (under SpecNav). *)

\* the sum of the numbers f[1], ..., f[n]
RECURSIVE SumTo(_, _)
SumTo(f, n) == IF n = 0 THEN 0 ELSE f[n] + SumTo(f, n - 1)

\* how many entries of tree, at any depth, are item i
RECURSIVE Occurrences(_, _)
Occurrences(tree, i) ==
    SumTo([k \in DOMAIN tree |->
              (IF tree[k].id = i THEN 1 ELSE 0)
                  + Occurrences(tree[k].children, i)],
          Len(tree))

\* item i has an inactive item among its parent, its parent's parent, ...
UnderInactive(i) ==
    \E a \in Ancestors(navs[i].parent_id, Len(navs)) : ~navs[a].is_active

\* C29: an active navigation item whose parent, or any ancestor, is inactive
\* appears nowhere in the tree build_navigation returns, not even at the top
\* level; and every item that appears in the tree appears exactly once.
C29_InactiveBranchesHidden ==
    Built /\ ret.raised = "none" =>
        \A i \in DOMAIN navs :
            /\ Occurrences(ret.value, i) <= 1
            /\ navs[i].is_active /\ UnderInactive(i)
                   => Occurrences(ret.value, i) = 0

\* C29 witness: a tree with an entry was built while another active item of
\* the site has an inactive top-level item as its parent.
C29_Witness ==
    /\ Built
    /\ ret.raised = "none"
    /\ ret.value # <<>>
    /\ \E i \in DOMAIN navs :
           /\ navs[i].is_active
           /\ navs[i].site_id = call.site
           /\ navs[i].parent_id \in DOMAIN navs
           /\ navs[navs[i].parent_id].parent_id = 0
           /\ navs[navs[i].parent_id].site_id = call.site
           /\ ~navs[navs[i].parent_id].is_active
           /\ Occurrences(ret.value, i) = 0

----------------------------------------------------------------------------
(* The two renderers (under SpecRender). *)

\* C30: the two block renderers agree: app.render_content_blocks applied to
\* a single block gives the markup of the block's own render(), for the
\* types text, html, image, list, quote and code and for the other types.
C30_RenderersAgree ==
    call.op = "render_content_blocks" => ret.value = render(call.block)

====
